---- MODULE Spec2Model ----
(***************************************************************************)
(* A model of the sx127x_lora driver (src/src/sx127x_lora.rs), of its      *)
(* register map (src/src/sx127x_lora/register.rs) and of the simulated     *)
(* radio MockLora (src/src/radio_mock.rs).                                 *)
(*                                                                         *)
(* The driver is single-threaded: every driver operation is one action     *)
(* that runs the whole handler, register access by register access, over  *)
(* a record m (the fields of LoRa, the chip behind the SPI transport, the *)
(* chip-select pin, and the trace of what the handler did to the          *)
(* transport).  A `?` of the source is the error field of m: once it is   *)
(* set, every later step of the handler leaves m alone.                   *)
(***************************************************************************)
EXTENDS Integers, Sequences, FiniteSets, TLC

(***************************************************************************)
(* u8 arithmetic and the bit operations of the source                      *)
(***************************************************************************)
RECURSIVE BitAnd(_, _)
BitAnd(a, b) ==
    IF a = 0 \/ b = 0 THEN 0
    ELSE (a % 2) * (b % 2) + 2 * BitAnd(a \div 2, b \div 2)

BitOr(a, b) == a + b - BitAnd(a, b)

\* bit_field::BitField::get_bit
get_bit(x, i) == (x \div (2 ^ i)) % 2 = 1

\* bit_field::BitField::set_bit
set_bit(x, i, b) ==
    IF b THEN BitOr(x, 2 ^ i) ELSE x - (IF get_bit(x, i) THEN 2 ^ i ELSE 0)

\* `as u8`
AsU8(x) == x % 256

Min(a, b) == IF a <= b THEN a ELSE b

\* Ord::clamp
Clamp(x, lo, hi) == IF x < lo THEN lo ELSE IF x > hi THEN hi ELSE x

\* the first n elements of s: Iterator::take(n)
Take(s, n) == SubSeq(s, 1, Min(Len(s), n))

(***************************************************************************)
(* register.rs: the register map                                           *)
(***************************************************************************)
Fifo == 0
OpMode == 1
FrfMsb == 6
FrfMid == 7
FrfLsb == 8
PaConfig == 9
Ocp == 11
Lna == 12
FifoAddrPtr == 13
FifoTxBaseAddr == 14
FifoRxBaseAddr == 15
FifoRxCurrentAddr == 16
IrqFlags == 18
RxNbBytes == 19
ModemConfig1 == 29
ModemConfig2 == 30
PayloadLength == 34
ModemConfig3 == 38
DetectionOptimize == 49
DetectionThreshold == 55
Version == 66
PaDac == 77

Registers ==
    { Fifo, OpMode, FrfMsb, FrfMid, FrfLsb, PaConfig, Ocp, Lna, FifoAddrPtr,
      FifoTxBaseAddr, FifoRxBaseAddr, FifoRxCurrentAddr, IrqFlags, RxNbBytes,
      ModemConfig1, ModemConfig2, PayloadLength, ModemConfig3,
      DetectionOptimize, DetectionThreshold, Version, PaDac }

\* enum PaConfig
PaBoost == 128
PaOutputRfoPin == 0

\* enum IRQMask
TxDone == 8
PayloadCrcError == 32
RxDone == 64

\* enum RadioMode
LongRangeMode == 128
Sleep == 0
Stdby == 1
Tx == 3
RxContinuous == 5
RxSingle == 6

Modes == { Sleep, Stdby, Tx, RxContinuous, RxSingle }

VERSION_CHECK == 18

\* heapless::Vec<u8, 255>: the capacity of a packet buffer
Capacity == 255

\* the chip's FIFO memory, addressed by the 8-bit FifoAddrPtr
FifoSize == 256

(***************************************************************************)
(* State                                                                   *)
(***************************************************************************)
VARIABLES
    \* struct LoRa and what it owns
    regs,             \* the chip's registers, behind the SPI transport
    fifo,             \* the chip's FIFO memory
    cs,               \* level of the chip-select pin
    frequency,        \* LoRa.frequency
    explicit_header,  \* LoRa.explicit_header (a pub field)
    mode,             \* LoRa.mode, the cached RadioMode
    \* the last driver operation, as its caller and a recording transport saw it
    op,               \* its name ("chip" for a step of the chip itself)
    arg,              \* its argument
    ret,              \* what it returned
    trace,            \* the pin and transport calls it made, in order
    who,              \* who took the last step: "driver", "caller" or "chip"
    \* history
    again,            \* whether the last operation repeated the call before it,
                      \* and what that call did
    ldo_set,          \* whether set_signal_bandwidth or set_spreading_factor
                      \* has succeeded
    \* the simulated radios (radio_mock.rs)
    radios,           \* the MockLoras of one bus, by index: rx, tx, and where
                      \* the endpoint's thread is
    drops,            \* history: how many radios were dropped
    chan,             \* the channels, by index: the buffers sent and not yet received
    sent,             \* history: the payloads each endpoint was given to transmit,
                      \* and what the calls returned
    recv,             \* history: the buffers each endpoint's read_packet returned
    \* read_packet_timeout
    tmo               \* the blocking call (read_packet_timeout, transmit_payload_busy) under way or returned

drvVars ==
    << regs, fifo, cs, frequency, explicit_header, mode, op, arg, ret, trace, who,
       again, ldo_set >>

mockVars == << radios, drops, chan, sent, recv >>

\* a fault choice: how many pin and transport calls succeed before one fails
NoFault == 0 - 1

(***************************************************************************)
(* The chip, as the driver's code expects it to behave                     *)
(***************************************************************************)
\* registers the chip alone writes
ReadOnly == { Version, RxNbBytes, FifoRxCurrentAddr }

\* register values after the hardware reset pulse of LoRa::new; the setters'
\* doc comments name the defaults (bandwidth 125000 Hz, spreading factor 7,
\* coding rate 4/5, explicit header, CRC off)
ChipReset ==
    [ r \in Registers |->
        CASE r = OpMode -> 1
          [] r = FrfMsb -> 108
          [] r = FrfMid -> 128
          [] r = PaConfig -> 79
          [] r = Ocp -> 43
          [] r = Lna -> 32
          [] r = FifoTxBaseAddr -> 128
          [] r = ModemConfig1 -> 114
          [] r = ModemConfig2 -> 112
          [] r = PayloadLength -> 1
          [] r = DetectionOptimize -> 195
          [] r = DetectionThreshold -> 10
          [] r = Version -> VERSION_CHECK
          [] r = PaDac -> 132
          [] OTHER -> 0 ]

\* the byte a read of register a returns
ChipRead(m, a) == IF a = Fifo THEN m.fifo[m.regs[FifoAddrPtr]] ELSE m.regs[a]

\* a read of the Fifo register advances the address pointer
ChipAfterRead(m, a) ==
    IF a = Fifo
    THEN [m EXCEPT !.regs[FifoAddrPtr] = (@ + 1) % FifoSize]
    ELSE m

\* a write of byte v to register a: the Fifo register stores at the address
\* pointer and advances it, IrqFlags clears the bits written as 1
ChipAfterWrite(m, a, v) ==
    CASE a = Fifo ->
            [m EXCEPT !.fifo[m.regs[FifoAddrPtr]] = v,
                      !.regs[FifoAddrPtr] = (@ + 1) % FifoSize]
      [] a = IrqFlags -> [m EXCEPT !.regs[IrqFlags] = @ - BitAnd(@, v)]
      [] a \in ReadOnly -> m
      [] OTHER -> [m EXCEPT !.regs[a] = v]

(***************************************************************************)
(* Pins and transport: each call is fallible                               *)
(***************************************************************************)
Ev(e, x, y) == [ev |-> e, b0 |-> x, b1 |-> y]

Failed(m) == m.err # "none"

\* `a?; G`: the call a, and G on what it leaves unless it failed
Try(a, G(_)) == CHOOSE r \in { IF Failed(x) THEN x ELSE G(x) : x \in { a } } : TRUE

\* `a; G`: the call a, then G on what it leaves
Then(a, G(_)) == CHOOSE r \in { G(x) : x \in { a } } : TRUE

\* one fallible call of the embedded_hal traits; kind is the Error variant
\* that map_err wraps its failure in
Fallible(m, kind) ==
    IF Failed(m) THEN m
    ELSE IF m.fuel = 0 THEN [m EXCEPT !.err = kind]
    ELSE IF m.fuel > 0 THEN [m EXCEPT !.fuel = @ - 1]
    ELSE m

cs_set_low(m) ==
    Try(Fallible(m, "CS"), LAMBDA a :
        [a EXCEPT !.cs = "low", !.trace = Append(@, Ev("cs_low", 0, 0))])

cs_set_high(m) ==
    Try(Fallible(m, "CS"), LAMBDA a :
        [a EXCEPT !.cs = "high", !.trace = Append(@, Ev("cs_high", 0, 0))])

\* spi.transfer(&mut buffer): the chip answers frame[1] in the second byte
spi_transfer(m, frame) ==
    Try(Fallible(m, "Spi"), LAMBDA a :
    Then(ChipRead(a, frame[1] % 128), LAMBDA v :
        [ChipAfterRead(a, frame[1] % 128) EXCEPT
            !.val = v, !.trace = Append(@, Ev("transfer", frame[1], v))]))

\* spi.write(&buffer)
spi_write(m, frame) ==
    Try(Fallible(m, "Spi"), LAMBDA a :
        IF frame[1] >= 128
        THEN [ChipAfterWrite(a, frame[1] % 128, frame[2]) EXCEPT
                 !.trace = Append(@, Ev("write", frame[1], frame[2]))]
        ELSE [a EXCEPT !.trace = Append(@, Ev("write", frame[1], frame[2]))])

\* the byte read is m.val of the result
read_register(m, reg) ==
    Try(cs_set_low(m), LAMBDA a :
    Try(spi_transfer(a, << BitAnd(reg, 127), 0 >>), LAMBDA b :
        cs_set_high(b)))

write_register(m, reg, byte) ==
    Try(cs_set_low(m), LAMBDA a :
    Try(spi_write(a, << BitOr(reg, 128), byte >>), LAMBDA b :
        cs_set_high(b)))

(***************************************************************************)
(* impl LoRa: mode transition                                              *)
(***************************************************************************)
set_explicit_header_mode(m) ==
    Try(read_register(m, ModemConfig1), LAMBDA a :
    Try(write_register(a, ModemConfig1, BitAnd(a.val, 254)), LAMBDA b :
        [b EXCEPT !.explicit_header = TRUE]))

set_implicit_header_mode(m) ==
    Try(read_register(m, ModemConfig1), LAMBDA a :
    Try(write_register(a, ModemConfig1, BitAnd(a.val, 1)), LAMBDA b :
        [b EXCEPT !.explicit_header = FALSE]))

\* variant: set_mode without the comparison with the cached mode
set_mode_always(m, newmode) ==
    Try(IF m.explicit_header
        THEN set_explicit_header_mode(m)
        ELSE set_implicit_header_mode(m), LAMBDA a :
    Try(write_register(a, OpMode, BitOr(LongRangeMode, newmode)), LAMBDA b :
        [b EXCEPT !.mode = newmode]))

\* variant: set_mode that does not update the cached mode
set_mode_uncached(m, newmode) ==
    IF newmode # m.mode
    THEN Try(IF m.explicit_header
             THEN set_explicit_header_mode(m)
             ELSE set_implicit_header_mode(m), LAMBDA a :
             write_register(a, OpMode, BitOr(LongRangeMode, newmode)))
    ELSE m

set_mode(m, newmode) ==
    IF newmode # m.mode
    THEN Try(IF m.explicit_header
             THEN set_explicit_header_mode(m)
             ELSE set_implicit_header_mode(m), LAMBDA a :
         Try(write_register(a, OpMode, BitOr(LongRangeMode, newmode)), LAMBDA b :
             [b EXCEPT !.mode = newmode]))
    ELSE m

(***************************************************************************)
(* impl EmbeddedRadio for LoRa                                             *)
(***************************************************************************)
\* variant: transmitting comparing the masked OpMode with 1, as it compares the
\* masked IrqFlags
transmitting_eq_1(m) ==
    Try(read_register(m, OpMode), LAMBDA a :
        IF BitAnd(a.val, Tx) = 1 THEN [a EXCEPT !.flag = TRUE]
        ELSE Try(read_register(a, IrqFlags), LAMBDA b :
                 IF BitAnd(b.val, TxDone) = 1
                 THEN Try(write_register(b, IrqFlags, TxDone), LAMBDA c :
                          [c EXCEPT !.flag = FALSE])
                 ELSE [b EXCEPT !.flag = FALSE]))

\* the answer is m.flag of the result
transmitting(m) ==
    Try(read_register(m, OpMode), LAMBDA a :
        IF BitAnd(a.val, Tx) = Tx THEN [a EXCEPT !.flag = TRUE]
        ELSE Try(read_register(a, IrqFlags), LAMBDA b :
                 IF BitAnd(b.val, TxDone) = 1
                 THEN Try(write_register(b, IrqFlags, TxDone), LAMBDA c :
                          [c EXCEPT !.flag = FALSE])
                 ELSE [b EXCEPT !.flag = FALSE]))

\* for &byte in bytes { self.write_register(Register::Fifo, byte)?; }
\* (the loop over bytes is the loop over its first half, then over the rest)
RECURSIVE write_fifo(_, _)
write_fifo(m, bytes) ==
    IF bytes = << >> THEN m
    ELSE IF Len(bytes) = 1 THEN write_register(m, Fifo, bytes[1])
    ELSE Try(write_fifo(m, SubSeq(bytes, 1, Len(bytes) \div 2)), LAMBDA a :
             write_fifo(a, SubSeq(bytes, Len(bytes) \div 2 + 1, Len(bytes))))

\* variant: transmit_payload writing payload.len() as u8, not capped at 255
transmit_payload_len_as_u8(m, payload) ==
    Try(transmitting(m), LAMBDA t :
        IF t.flag THEN [t EXCEPT !.err = "Transmitting"]
        ELSE
    Try(set_mode(t, Stdby), LAMBDA a :
    Try(write_register(a, IrqFlags, 0), LAMBDA b :
    Try(write_register(b, FifoAddrPtr, 0), LAMBDA c :
    Try(write_register(c, PayloadLength, 0), LAMBDA d :
    Try(write_fifo(d, Take(payload, 255)), LAMBDA e :
    Try(write_register(e, PayloadLength, AsU8(Len(payload))), LAMBDA f :
        set_mode(f, Tx))))))))

transmit_payload(m, payload) ==
    Try(transmitting(m), LAMBDA t :
        IF t.flag THEN [t EXCEPT !.err = "Transmitting"]
        ELSE
    Try(set_mode(t, Stdby), LAMBDA a :
    Try(write_register(a, IrqFlags, 0), LAMBDA b :
    Try(write_register(b, FifoAddrPtr, 0), LAMBDA c :
    Try(write_register(c, PayloadLength, 0), LAMBDA d :
    Try(write_fifo(d, Take(payload, 255)), LAMBDA e :
    Try(write_register(e, PayloadLength, AsU8(Min(Len(payload), 255))), LAMBDA f :
        set_mode(f, Tx))))))))

clear_irq(m) ==
    Try(read_register(m, IrqFlags), LAMBDA a :
        write_register(a, IrqFlags, a.val))

\* variant: check_irq that acknowledges the flags whether or not a packet is ready
check_irq_always_clear(m) ==
    Try(read_register(m, IrqFlags), LAMBDA a :
    Try(clear_irq(a), LAMBDA b :
        IF get_bit(a.val, 6)
        THEN Try(read_register(b, RxNbBytes), LAMBDA c :
                 [c EXCEPT !.some = TRUE])
        ELSE [b EXCEPT !.some = FALSE]))

\* Some(size) is m.some and m.val of the result
check_irq(m) ==
    Try(read_register(m, IrqFlags), LAMBDA a :
        IF get_bit(a.val, 6)
        THEN Try(clear_irq(a), LAMBDA b :
             Try(read_register(b, RxNbBytes), LAMBDA c :
                 [c EXCEPT !.some = TRUE]))
        ELSE [a EXCEPT !.some = FALSE])

\* for _ in 0..n { let byte = self.read_register(Register::Fifo)?;
\*                 buffer.push(byte).ok(); }
\* (n iterations are the first half of them, then the rest)
RECURSIVE read_fifo(_, _)
read_fifo(m, n) ==
    IF n = 0 THEN m
    ELSE IF n = 1
    THEN Try(read_register(m, Fifo), LAMBDA a :
             [a EXCEPT !.buf = IF Len(@) < Capacity THEN Append(@, a.val) ELSE @])
    ELSE Try(read_fifo(m, n \div 2), LAMBDA a : read_fifo(a, n - n \div 2))

\* variant: read_packet reading the FIFO from where FifoAddrPtr stands
read_packet_no_seek(m) ==
    Try(set_mode(m, RxContinuous), LAMBDA r :
    Try(check_irq(r), LAMBDA s :
        IF ~s.some THEN s
        ELSE
    Try(read_register([s EXCEPT !.buf = << >>], FifoRxCurrentAddr), LAMBDA a :
    Try(read_fifo(a, s.val), LAMBDA c :
        write_register(c, FifoAddrPtr, 0)))))

\* Some(buffer) is m.some and m.buf of the result
read_packet(m) ==
    Try(set_mode(m, RxContinuous), LAMBDA r :
    Try(check_irq(r), LAMBDA s :
        IF ~s.some THEN s
        ELSE
    Try(read_register([s EXCEPT !.buf = << >>], FifoRxCurrentAddr), LAMBDA a :
    Try(write_register(a, FifoAddrPtr, a.val), LAMBDA b :
    Try(read_fifo(b, s.val), LAMBDA c :
        write_register(c, FifoAddrPtr, 0))))))

(***************************************************************************)
(* impl LoRa: modem configuration                                          *)
(***************************************************************************)
\* i64 division truncates toward zero
TruncDiv(x, y) ==
    IF (x >= 0) = (y > 0) THEN (IF x >= 0 THEN x ELSE 0 - x) \div (IF y > 0 THEN y ELSE 0 - y)
    ELSE 0 - ((IF x >= 0 THEN x ELSE 0 - x) \div (IF y > 0 THEN y ELSE 0 - y))

\* the match of set_signal_bandwidth
BandwidthCode(sbw) ==
    CASE sbw = 7800 -> 0
      [] sbw = 10400 -> 1
      [] sbw = 15600 -> 2
      [] sbw = 20800 -> 3
      [] sbw = 31250 -> 4
      [] sbw = 41700 -> 5
      [] sbw = 62500 -> 6
      [] sbw = 125000 -> 7
      [] sbw = 250000 -> 8
      [] OTHER -> 9

\* variant: the match of get_signal_bandwidth without its arm for code 9
BandwidthOfCode_no9(bw) ==
    CASE bw = 0 -> 7800
      [] bw = 1 -> 10400
      [] bw = 2 -> 15600
      [] bw = 3 -> 20800
      [] bw = 4 -> 31250
      [] bw = 5 -> 41700
      [] bw = 6 -> 62500
      [] bw = 7 -> 125000
      [] bw = 8 -> 250000
      [] OTHER -> 0 - 1

\* the match of get_signal_bandwidth
BandwidthOfCode(bw) ==
    CASE bw = 0 -> 7800
      [] bw = 1 -> 10400
      [] bw = 2 -> 15600
      [] bw = 3 -> 20800
      [] bw = 4 -> 31250
      [] bw = 5 -> 41700
      [] bw = 6 -> 62500
      [] bw = 7 -> 125000
      [] bw = 8 -> 250000
      [] bw = 9 -> 500000
      [] OTHER -> 0 - 1

\* the spreading factor is m.val of the result
get_spreading_factor(m) ==
    Try(read_register(m, ModemConfig2), LAMBDA a : [a EXCEPT !.val = a.val \div 16])

\* the bandwidth is m.val of the result
get_signal_bandwidth(m) ==
    Try(read_register(m, ModemConfig1), LAMBDA a :
        [a EXCEPT !.val = BandwidthOfCode(a.val \div 16)])

\* 1000 / (sw / (1 << sf)); a division by zero panics
set_ldo_flag(m) ==
    Try(get_signal_bandwidth(m), LAMBDA sw :
    Try(get_spreading_factor(sw), LAMBDA sf :
        IF TruncDiv(sw.val, 2 ^ sf.val) = 0 THEN [sf EXCEPT !.err = "panic"]
        ELSE
    Then(TruncDiv(1000, TruncDiv(sw.val, 2 ^ sf.val)) > 16, LAMBDA ldo_on :
    Try(read_register(sf, ModemConfig3), LAMBDA config_3 :
        write_register(config_3, ModemConfig3, set_bit(config_3.val, 3, ldo_on))))))

set_spreading_factor(m, sf0) ==
    Then(Clamp(sf0, 6, 12), LAMBDA sf :
    Try(IF sf = 6
        THEN write_register(m, DetectionOptimize, 197)
        ELSE write_register(m, DetectionOptimize, 195), LAMBDA a :
    Try(IF sf = 6
        THEN write_register(a, DetectionThreshold, 12)
        ELSE write_register(a, DetectionThreshold, 10), LAMBDA b :
    Try(read_register(b, ModemConfig2), LAMBDA modem_config_2 :
    Try(write_register(modem_config_2, ModemConfig2,
                       BitOr(BitAnd(modem_config_2.val, 15),
                             BitAnd(AsU8(sf * 16), 240))), LAMBDA c :
        set_ldo_flag(c))))))

set_signal_bandwidth(m, sbw) ==
    Then(BandwidthCode(sbw), LAMBDA bw :
    Try(read_register(m, ModemConfig1), LAMBDA modem_config_1 :
    Try(write_register(modem_config_1, ModemConfig1,
                       BitOr(BitAnd(modem_config_1.val, 15), AsU8(bw * 16))), LAMBDA a :
        set_ldo_flag(a))))

set_coding_rate_4(m, denominator0) ==
    Then(Clamp(denominator0, 5, 8) - 4, LAMBDA cr :
    Try(read_register(m, ModemConfig1), LAMBDA modem_config_1 :
        write_register(modem_config_1, ModemConfig1,
                       BitOr(BitAnd(modem_config_1.val, 241), AsU8(cr * 2)))))

set_crc(m, value) ==
    Try(read_register(m, ModemConfig2), LAMBDA modem_config_2 :
        IF value
        THEN write_register(modem_config_2, ModemConfig2, BitOr(modem_config_2.val, 4))
        ELSE write_register(modem_config_2, ModemConfig2, BitAnd(modem_config_2.val, 251)))

(***************************************************************************)
(* impl LoRa: transmit power                                               *)
(***************************************************************************)
\* u8 subtraction and addition: with overflow checks (a debug build) an
\* overflow panics, without them (a release build) the result wraps
U8Sub(m, x, y, checks) ==
    IF x - y < 0 /\ checks THEN [m EXCEPT !.err = "panic"]
    ELSE [m EXCEPT !.val = (x - y) % 256]

U8Add(m, x, y, checks) ==
    IF x + y > 255 /\ checks THEN [m EXCEPT !.err = "panic"]
    ELSE [m EXCEPT !.val = (x + y) % 256]

\* checks: whether the build checks arithmetic overflow
set_ocp(m, ma, checks) ==
    Try(IF ma <= 120 THEN U8Sub(m, ma, 45, checks)
        ELSE IF ma <= 240 THEN U8Add(m, ma, 30, checks)
        ELSE m, LAMBDA t :
    Then(IF ma <= 120 THEN t.val \div 5
         ELSE IF ma <= 240 THEN t.val \div 10
         ELSE 27, LAMBDA ocp_trim :
        write_register(t, Ocp, BitOr(32, BitAnd(31, ocp_trim)))))

\* variant: the boosted path that forgets `level -= 3` above 17
set_tx_power_no_sub3(m, level, output_pin, checks) ==
    IF PaOutputRfoPin = output_pin
    THEN write_register(m, PaConfig, AsU8(BitOr(112, Clamp(level, 0, 14))))
    ELSE IF Clamp(level, 2, 20) > 17
    THEN Try(write_register(m, PaDac, 135), LAMBDA a :
         Try(set_ocp(a, 140, checks), LAMBDA b :
             write_register(b, PaConfig,
                            BitOr(PaBoost, AsU8(Clamp(level, 2, 20) - 2)))))
    ELSE Try(write_register(m, PaDac, 132), LAMBDA a :
         Try(set_ocp(a, 100, checks), LAMBDA b :
             write_register(b, PaConfig,
                            BitOr(PaBoost, AsU8(Clamp(level, 2, 20) - 2)))))

\* level is an i32, output_pin a u8
set_tx_power(m, level, output_pin, checks) ==
    IF PaOutputRfoPin = output_pin
    THEN write_register(m, PaConfig, AsU8(BitOr(112, Clamp(level, 0, 14))))
    ELSE IF Clamp(level, 2, 20) > 17
    THEN Try(write_register(m, PaDac, 135), LAMBDA a :
         Try(set_ocp(a, 140, checks), LAMBDA b :
             write_register(b, PaConfig,
                            BitOr(PaBoost, AsU8(Clamp(level, 2, 20) - 3 - 2)))))
    ELSE Try(write_register(m, PaDac, 132), LAMBDA a :
         Try(set_ocp(a, 100, checks), LAMBDA b :
             write_register(b, PaConfig,
                            BitOr(PaBoost, AsU8(Clamp(level, 2, 20) - 2)))))

(***************************************************************************)
(* impl LoRa: construction                                                 *)
(***************************************************************************)
\* variant: set_frequency shifting the middle byte by 16 as it shifts the top one
set_frequency_shift16(m, freq) ==
    Then((freq * (2 ^ 19)) \div 32, LAMBDA frf :
    Try(write_register([m EXCEPT !.frequency = freq],
                       FrfMsb, AsU8(BitAnd(frf, 16711680) \div 65536)), LAMBDA a :
    Try(write_register(a, FrfMid, AsU8(BitAnd(frf, 65280) \div 65536)), LAMBDA b :
        write_register(b, FrfLsb, AsU8(BitAnd(frf, 255))))))

set_frequency(m, freq) ==
    Then((freq * (2 ^ 19)) \div 32, LAMBDA frf :
    Try(write_register([m EXCEPT !.frequency = freq],
                       FrfMsb, AsU8(BitAnd(frf, 16711680) \div 65536)), LAMBDA a :
    Try(write_register(a, FrfMid, AsU8(BitAnd(frf, 65280) \div 256)), LAMBDA b :
        write_register(b, FrfLsb, AsU8(BitAnd(frf, 255))))))

\* reset.set_low(): the pulse puts the chip in its reset state; v is what its
\* Version register holds
reset_set_low(m, v) ==
    Try(Fallible(m, "Reset"), LAMBDA a :
        [a EXCEPT !.regs = [ChipReset EXCEPT ![Version] = v],
                  !.fifo = [i \in 0 .. FifoSize - 1 |-> 0],
                  !.trace = Append(@, Ev("reset_low", 0, 0))])

reset_set_high(m) ==
    Try(Fallible(m, "Reset"), LAMBDA a :
        [a EXCEPT !.trace = Append(@, Ev("reset_high", 0, 0))])

\* delay.delay_ms(ms): infallible
delay_ms(m, ms) == [m EXCEPT !.trace = Append(@, Ev("delay", ms, 0))]

\* variant: LoRa::new of the build with feature version_0x09, whose sentinel is 0x09
new_version_0x09(m, freq, v) ==
    Try(reset_set_low([m EXCEPT !.frequency = freq, !.explicit_header = TRUE,
                                !.mode = Sleep], v), LAMBDA r0 :
    Try(reset_set_high(delay_ms(r0, 10)), LAMBDA r1 :
    Try(read_register(delay_ms(r1, 10), Version), LAMBDA version :
        IF version.val # 9
        THEN [version EXCEPT !.err = "VersionMismatch"]
        ELSE
    Try(set_mode(version, Sleep), LAMBDA a :
    Try(set_frequency(a, freq), LAMBDA b :
    Try(write_register(b, FifoTxBaseAddr, 0), LAMBDA c :
    Try(write_register(c, FifoRxBaseAddr, 0), LAMBDA d :
    Try(read_register(d, Lna), LAMBDA lna :
    Try(write_register(lna, Lna, BitOr(lna.val, 3)), LAMBDA e :
    Try(write_register(e, ModemConfig3, 4), LAMBDA f :
    Try(set_mode(f, Stdby), LAMBDA g :
        cs_set_high(g))))))))))))

\* LoRa::new over a chip whose Version register reads v; on VersionMismatch
\* the observed version is m.val of the result
new(m, freq, v) ==
    Try(reset_set_low([m EXCEPT !.frequency = freq, !.explicit_header = TRUE,
                                !.mode = Sleep], v), LAMBDA r0 :
    Try(reset_set_high(delay_ms(r0, 10)), LAMBDA r1 :
    Try(read_register(delay_ms(r1, 10), Version), LAMBDA version :
        IF version.val # VERSION_CHECK
        THEN [version EXCEPT !.err = "VersionMismatch"]
        ELSE
    Try(set_mode(version, Sleep), LAMBDA a :
    Try(set_frequency(a, freq), LAMBDA b :
    Try(write_register(b, FifoTxBaseAddr, 0), LAMBDA c :
    Try(write_register(c, FifoRxBaseAddr, 0), LAMBDA d :
    Try(read_register(d, Lna), LAMBDA lna :
    Try(write_register(lna, Lna, BitOr(lna.val, 3)), LAMBDA e :
    Try(write_register(e, ModemConfig3, 4), LAMBDA f :
    Try(set_mode(f, Stdby), LAMBDA g :
        cs_set_high(g))))))))))))

(***************************************************************************)
(* The driver's actions                                                    *)
(***************************************************************************)
\* the handler's working record: the fields of self, an empty trace, and
\* the fault choice f
Self(f) ==
    [ regs |-> regs, fifo |-> fifo, cs |-> cs, frequency |-> frequency,
      explicit_header |-> explicit_header, mode |-> mode,
      trace |-> << >>, err |-> "none", fuel |-> f,
      val |-> 0, flag |-> FALSE, some |-> FALSE, buf |-> << >> ]

\* before construction: pins and chip powered up, nothing configured
PowerOn ==
    [ regs |-> ChipReset, fifo |-> [i \in 0 .. FifoSize - 1 |-> 0], cs |-> "high",
      frequency |-> 0, explicit_header |-> TRUE, mode |-> Sleep,
      trace |-> << >>, err |-> "none", fuel |-> NoFault,
      val |-> 0, flag |-> FALSE, some |-> FALSE, buf |-> << >> ]

\* what the caller sees: the Result's variant, and the value it carries (val:
\* the byte or number of a getter, the version of VersionMismatch)
Returned(m) ==
    [err |-> m.err, flag |-> m.flag, some |-> m.some, buf |-> m.buf, val |-> m.val]

\* the register writes of a trace, and those to register reg
Writes(t) == SelectSeq(t, LAMBDA e : e.ev = "write")
WritesTo(t, reg) == SelectSeq(t, LAMBDA e : e.ev = "write" /\ e.b0 = BitOr(reg, 128))
Reads(t) == SelectSeq(t, LAMBDA e : e.ev = "transfer")
PinCalls(t) == SelectSeq(t, LAMBDA e : e.ev \in { "cs_low", "cs_high" })

FirstCall == [same |-> FALSE, ok |-> TRUE, writes |-> 0, opmode |-> 0]

\* the handler returns: self keeps what it did, the caller sees the result
Commit(m, name, a) ==
    /\ regs' = m.regs
    /\ fifo' = m.fifo
    /\ cs' = m.cs
    /\ frequency' = m.frequency
    /\ explicit_header' = m.explicit_header
    /\ mode' = m.mode
    /\ op' = name
    /\ arg' = a
    /\ ret' = Returned(m)
    /\ trace' = m.trace
    /\ who' = "driver"
    /\ again' = IF who = "driver" /\ op = name /\ arg = a
                THEN [same |-> TRUE, ok |-> ret.err = "none",
                      writes |-> Len(Writes(trace)),
                      opmode |-> Len(WritesTo(trace, OpMode))]
                ELSE FirstCall
    /\ ldo_set' = (ldo_set \/ (/\ name \in { "set_signal_bandwidth", "set_spreading_factor" }
                               /\ m.err = "none"))

\* bound of the model: the longest payload sent and the longest packet received
MaxLen == 2

\* the fault choice of the operations of a run in which pins and transport work
NoFaults == { NoFault }

\* payloads handed to transmit_payload: the empty one and 1, 2, .., MaxLen
TxPayloads == { << >>, [i \in 1 .. MaxLen |-> i] }

\* packets the chip receives off the air: the empty one and 101, 102, ..,
\* 100 + MaxLen
RxPackets == { << >>, [i \in 1 .. MaxLen |-> 100 + i] }

\* where in the FIFO the chip puts a received packet: receiving continuously
\* it appends each packet after the one before, so a packet may start
\* anywhere; here it starts in the middle of the FIFO
RxAddrs == { FifoSize \div 2 }

\* no call of read_packet_timeout is under way
NoLoop == tmo.pc \in { "idle", "done" }

\* a step of the driver outside read_packet_timeout, of its caller or of its chip
Beside == NoLoop /\ UNCHANGED << mockVars, tmo >>

SetMode(F) ==
    /\ Beside
    /\ \E newmode \in Modes, f \in F :
          \E m \in { set_mode(Self(f), newmode) } :
              Commit(m, "set_mode", << newmode >>)

TransmitPayload(P, F) ==
    /\ Beside
    /\ \E payload \in P, f \in F :
          \E m \in { transmit_payload(Self(f), payload) } :
              Commit(m, "transmit_payload", payload)

Transmitting(F) ==
    /\ Beside
    /\ \E f \in F :
          \E m \in { transmitting(Self(f)) } : Commit(m, "transmitting", << >>)

ReadPacket(F) ==
    /\ Beside
    /\ \E f \in F :
          \E m \in { read_packet(Self(f)) } : Commit(m, "read_packet", << >>)

\* the caller assigns the pub field explicit_header
AssignExplicitHeader ==
    /\ Beside
    /\ explicit_header' = ~explicit_header
    /\ who' = "caller"
    /\ UNCHANGED << regs, fifo, cs, frequency, mode, op, arg, ret, trace, again, ldo_set >>

\* the chip finishes a transmission: it raises TxDone and falls back to Standby
ChipTxDone ==
    /\ UNCHANGED << mockVars, tmo >>
    /\ regs[OpMode] = BitOr(LongRangeMode, Tx)
    /\ regs' = [regs EXCEPT ![OpMode] = BitOr(LongRangeMode, Stdby),
                            ![IrqFlags] = BitOr(@, TxDone)]
    /\ who' = "chip"
    /\ UNCHANGED << fifo, cs, frequency, explicit_header, mode, op, arg, ret, trace,
                    again, ldo_set >>

\* FIFO memory after the chip stored packet p from address a on
Stored(mem, a, p) ==
    [x \in 0 .. FifoSize - 1 |->
        IF (x + FifoSize - a) % FifoSize < Len(p)
        THEN p[((x + FifoSize - a) % FifoSize) + 1]
        ELSE mem[x]]

\* the chip, receiving, gets a packet: it stores it in the FIFO, sets RxNbBytes
\* and FifoRxCurrentAddr and raises RxDone; from RxSingle it falls back to
\* Standby
ChipRxDone(P) ==
    /\ UNCHANGED << mockVars, tmo >>
    /\ regs[OpMode] \in { BitOr(LongRangeMode, RxContinuous), BitOr(LongRangeMode, RxSingle) }
    /\ \E p \in P, a \in RxAddrs :
          /\ fifo' = Stored(fifo, a, p)
          /\ regs' = [regs EXCEPT ![FifoRxCurrentAddr] = a,
                                  ![RxNbBytes] = Len(p),
                                  ![IrqFlags] = BitOr(@, RxDone),
                                  ![OpMode] = IF @ = BitOr(LongRangeMode, RxSingle)
                                              THEN BitOr(LongRangeMode, Stdby) ELSE @]
    /\ who' = "chip"
    /\ UNCHANGED << cs, frequency, explicit_header, mode, op, arg, ret, trace,
                    again, ldo_set >>

\* the state LoRa::new(spi, cs, reset, 915, delay) returns in
DrvInit ==
    \E m \in { new(PowerOn, 915, VERSION_CHECK) } :
        /\ regs = m.regs
        /\ fifo = m.fifo
        /\ cs = m.cs
        /\ frequency = m.frequency
        /\ explicit_header = m.explicit_header
        /\ mode = m.mode
        /\ op = "new"
        /\ arg = << 915 >>
        /\ ret = Returned(m)
        /\ trace = m.trace
        /\ who = "driver"
        /\ again = FirstCall
        /\ ldo_set = FALSE

vars == << drvVars, mockVars, tmo >>

(***************************************************************************)
(* radio_mock.rs: MockLora                                                 *)
(***************************************************************************)
\* bounds of the model: the calls of transmit_payload and the radios dropped
\* in a run, the largest timeout_ms
MaxSends == 2
MaxDrops == 2
MaxTimeout == 2

\* variant: the senders of every channel, the radio's own too
tx_of_all(i, n) == [k \in 1 .. n |-> k - 1]

\* radios_antennas_reference.iter().filter(|e| e.0 != self_antenna.0): the
\* senders of the channels of the other radios, in the order of their indices
tx_of(i, n) == [k \in 1 .. n - 1 |-> IF k - 1 < i THEN k - 1 ELSE k]

\* a result: Ok(()), Ok(None), Ok(Some(buf)), Err(Receiver) or Err(Transmitter)
MockRet(e, sm, b) == [err |-> e, some |-> sm, buf |-> b]

\* MockLora::new(num_radios): radio i receives from channel i and sends to the
\* channels tx_of(i, num_radios)
MockLora_new(num_radios) ==
    [i \in 0 .. num_radios - 1 |->
        [rx |-> i, tx |-> tx_of(i, num_radios), alive |-> TRUE,
         pc |-> "idle", buffer |-> << >>, next |-> 0]]

MockInit(n) ==
    /\ radios = MockLora_new(n)
    /\ drops = 0
    /\ chan = [c \in 0 .. n - 1 |-> << >>]
    /\ sent = [i \in 0 .. n - 1 |-> << >>]
    /\ recv = [i \in 0 .. n - 1 |-> << >>]

\* variant: a buffer that takes the whole payload
RadioBuffer_whole(payload) == payload

\* for &payload_byte in payload.iter().take(255) { buffer.push(..).unwrap(); }
RadioBuffer(payload) == Take(payload, Capacity)

\* variant: a channel that hands out the newest buffer first
send_front(q, msg) == << msg >> \o q

\* Sender::send on a channel with a receiver: the buffer joins the queue
send(q, msg) == Append(q, msg)

\* channel c has a receiver; it has a sender
HasReceiver(c) == \E r \in DOMAIN radios : radios[r].alive /\ radios[r].rx = c
HasSender(c) ==
    \E r \in DOMAIN radios :
        radios[r].alive /\ \E k \in DOMAIN radios[r].tx : radios[r].tx[k] = c

\* variant: a try_recv that reports Disconnected as soon as the channel has no
\* sender, buffers waiting or not
try_recv_eager(q, senders) ==
    IF ~senders THEN [err |-> "Receiver", some |-> FALSE, msg |-> << >>, rest |-> q]
    ELSE IF q # << >> THEN [err |-> "none", some |-> TRUE, msg |-> Head(q), rest |-> Tail(q)]
    ELSE [err |-> "none", some |-> FALSE, msg |-> << >>, rest |-> q]

\* Receiver::try_recv: the oldest buffer, Empty, or Disconnected when the
\* channel is empty and has no sender
try_recv(q, senders) ==
    IF q # << >> THEN [err |-> "none", some |-> TRUE, msg |-> Head(q), rest |-> Tail(q)]
    ELSE IF senders THEN [err |-> "none", some |-> FALSE, msg |-> << >>, rest |-> q]
    ELSE [err |-> "Receiver", some |-> FALSE, msg |-> << >>, rest |-> q]

\* the calls of transmit_payload so far
RECURSIVE SumLen(_, _)
SumLen(f, n) == IF n = 0 THEN 0 ELSE Len(f[n - 1]) + SumLen(f, n - 1)
Sends == SumLen(sent, Cardinality(DOMAIN sent))

\* radio i exists and its thread is between two calls
Idle(i) ==
    /\ radios[i].alive
    /\ radios[i].pc = "idle"
    /\ ~(tmo.impl = "mock" /\ tmo.radio = i /\ ~NoLoop)

\* transmit_payload entered: the buffer is built; with no sender it returns
MockTransmitCall(i, payload) ==
    /\ Idle(i)
    /\ Sends < MaxSends
    /\ IF radios[i].tx = << >>
       THEN /\ sent' = [sent EXCEPT ![i] = Append(@, [payload |-> payload, err |-> "none"])]
            /\ radios' = radios
       ELSE /\ sent' = [sent EXCEPT ![i] = Append(@, [payload |-> payload, err |-> "pending"])]
            /\ radios' = [radios EXCEPT ![i] =
                            [@ EXCEPT !.pc = "sending",
                                      !.buffer = RadioBuffer(payload),
                                      !.next = 1]]
    /\ UNCHANGED << drops, chan, recv >>

\* one turn of `for tx in self.tx.iter() { tx.send(buffer.clone())?; }`: the
\* send fails when the channel has no receiver, and the call returns the error;
\* after the last send the call returns Ok(()).  A buffer in a channel carries
\* who sent it and in which of the sender's calls.
MockSend(i) ==
    /\ radios[i].pc = "sending"
    /\ LET c == radios[i].tx[radios[i].next]
           msg == [bytes |-> radios[i].buffer, from |-> i, n |-> Len(sent[i])]
           back == [radios EXCEPT ![i] =
                      [@ EXCEPT !.pc = "idle", !.buffer = << >>, !.next = 0]]
       IN  IF HasReceiver(c)
           THEN /\ chan' = [chan EXCEPT ![c] = send(@, msg)]
                /\ IF radios[i].next = Len(radios[i].tx)
                   THEN /\ radios' = back
                        /\ sent' = [sent EXCEPT ![i][Len(sent[i])].err = "none"]
                   ELSE /\ radios' = [radios EXCEPT ![i] = [@ EXCEPT !.next = @ + 1]]
                        /\ sent' = sent
           ELSE /\ chan' = chan
                /\ radios' = back
                /\ sent' = [sent EXCEPT ![i][Len(sent[i])].err = "Transmitter"]
    /\ UNCHANGED << drops, recv >>

\* MockLora::read_packet by radio i, returning r
mock_read_packet(i, r) ==
    LET t == try_recv(chan[radios[i].rx], HasSender(radios[i].rx))
    IN  /\ r = MockRet(t.err, t.some, IF t.some THEN t.msg.bytes ELSE << >>)
        /\ chan' = [chan EXCEPT ![radios[i].rx] = t.rest]
        /\ recv' = [recv EXCEPT ![i] = IF t.some THEN Append(@, t.msg) ELSE @]
        /\ UNCHANGED << radios, drops, sent >>

MockResults ==
    { MockRet("none", FALSE, << >>), MockRet("Receiver", FALSE, << >>) }
        \cup { MockRet("none", TRUE, chan[c][1].bytes) : c \in { d \in DOMAIN chan : chan[d] # << >> } }

MockReadPacket(i) == Idle(i) /\ \E r \in MockResults : mock_read_packet(i, r)

\* radio i is dropped, and with it its receiver and its senders
MockDrop(i) ==
    /\ Idle(i)
    /\ drops < MaxDrops
    /\ radios' = [radios EXCEPT ![i] = [@ EXCEPT !.alive = FALSE]]
    /\ drops' = drops + 1
    /\ UNCHANGED << chan, sent, recv >>

(***************************************************************************)
(* read_packet_timeout, of the driver and of MockLora                      *)
(***************************************************************************)
NoCall(impl) ==
    [impl |-> impl, pc |-> "idle", radio |-> 0, timeout_ms |-> 0, count |-> 0,
     polls |-> 0, delays |-> 0, ms |-> { },
     avail |-> [some |-> FALSE, buf |-> << >>],
     result |-> MockRet("none", FALSE, << >>)]

\* variant: the loop that gives up when count > timeout_ms
TimedOut_gt(count, timeout_ms) == count > timeout_ms

\* if count >= timeout_ms { break None; }
TimedOut(count, timeout_ms) == count >= timeout_ms

\* let mut count = 0; loop {
TmoEnter(impl, i, timeout_ms) ==
    [NoCall(impl) EXCEPT !.pc = "poll", !.radio = i, !.timeout_ms = timeout_ms]

\* let packet = self.read_packet()?; if packet.is_some() { break packet; }
\* if count >= timeout_ms { break None; } count += 1;
\* r is what read_packet returned, avail the packet that was waiting
TmoAfterPoll(t, r, avail) ==
    LET p == [t EXCEPT !.polls = @ + 1, !.avail = avail]
    IN  IF r.err # "none" \/ r.some
        THEN [p EXCEPT !.pc = "done", !.result = MockRet(r.err, r.some, r.buf)]
        ELSE IF TimedOut(t.count, t.timeout_ms)
        THEN [p EXCEPT !.pc = "done", !.result = MockRet("none", FALSE, << >>)]
        ELSE [p EXCEPT !.count = @ + 1, !.pc = "delay"]

\* the packet the chip holds for the driver, if its RxDone flag is up
DriverAvail ==
    IF get_bit(regs[IrqFlags], 6)
    THEN [some |-> TRUE,
          buf |-> [k \in 1 .. regs[RxNbBytes] |->
                      fifo[(regs[FifoRxCurrentAddr] + k - 1) % FifoSize]]]
    ELSE [some |-> FALSE, buf |-> << >>]

\* the buffer waiting in the channel of radio i
MockAvail(i) ==
    IF chan[radios[i].rx] # << >>
    THEN [some |-> TRUE, buf |-> Head(chan[radios[i].rx]).bytes]
    ELSE [some |-> FALSE, buf |-> << >>]

Timeouts == (0 - 1) .. MaxTimeout

TmoCallDriver ==
    /\ tmo.impl = "driver" /\ NoLoop
    /\ \E timeout_ms \in Timeouts : tmo' = TmoEnter("driver", 0, timeout_ms)
    /\ UNCHANGED << drvVars, mockVars >>

TmoPollDriver ==
    /\ tmo.impl = "driver" /\ tmo.pc = "poll"
    /\ \E m \in { read_packet(Self(NoFault)) } : Commit(m, "read_packet", << >>)
    /\ tmo' = TmoAfterPoll(tmo, ret', DriverAvail)
    /\ UNCHANGED mockVars

TmoCallMock ==
    /\ tmo.impl = "mock" /\ NoLoop
    /\ \E i \in DOMAIN radios, timeout_ms \in Timeouts :
          Idle(i) /\ tmo' = TmoEnter("mock", i, timeout_ms)
    /\ UNCHANGED << drvVars, mockVars >>

TmoPollMock ==
    /\ tmo.impl = "mock" /\ tmo.pc = "poll"
    /\ \E r \in MockResults :
          /\ mock_read_packet(tmo.radio, r)
          /\ tmo' = TmoAfterPoll(tmo, r, MockAvail(tmo.radio))
    /\ UNCHANGED drvVars

\* delay.delay_ms(1); }
TmoDelay ==
    /\ tmo.pc = "delay"
    /\ tmo' = [tmo EXCEPT !.delays = @ + 1, !.ms = @ \cup { 1 }, !.pc = "poll"]
    /\ UNCHANGED << drvVars, mockVars >>
\* a driver, a bus of two simulated radios, no call under way
Init == DrvInit /\ MockInit(2) /\ tmo = NoCall("driver")

\* the driver sending and receiving, the chip working beside it
Next ==
    \/ SetMode(NoFaults)
    \/ TransmitPayload(TxPayloads, NoFaults)
    \/ Transmitting(NoFaults)
    \/ ReadPacket(NoFaults)
    \/ AssignExplicitHeader
    \/ ChipTxDone
    \/ ChipRxDone(RxPackets)

Spec == Init /\ [][Next]_vars

(***************************************************************************)
(* The driver configuring the modem                                        *)
(***************************************************************************)
\* arguments of the setters: at or below the lower end of their ranges and at
\* or above the upper end (the chip's reset values lie inside)
SfInputs == { 5, 12 }
BwInputs == { 7800, 123 }
CrInputs == { 3, 8 }

\* 1 for true, 0 for false
Bit(b) == IF b THEN 1 ELSE 0

SetSpreadingFactor(F) ==
    /\ Beside
    /\ \E sf \in SfInputs, f \in F :
          \E m \in { set_spreading_factor(Self(f), sf) } :
              Commit(m, "set_spreading_factor", << sf >>)

SetSignalBandwidth(B, F) ==
    /\ Beside
    /\ \E sbw \in B, f \in F :
          \E m \in { set_signal_bandwidth(Self(f), sbw) } :
              Commit(m, "set_signal_bandwidth", << sbw >>)

SetCodingRate4(F) ==
    /\ Beside
    /\ \E d \in CrInputs, f \in F :
          \E m \in { set_coding_rate_4(Self(f), d) } :
              Commit(m, "set_coding_rate_4", << d >>)

SetCrc(F) ==
    /\ Beside
    /\ \E value \in BOOLEAN, f \in F :
          \E m \in { set_crc(Self(f), value) } :
              Commit(m, "set_crc", << Bit(value) >>)

ConfigNext ==
    \/ SetSpreadingFactor(NoFaults)
    \/ SetSignalBandwidth(BwInputs, NoFaults)
    \/ SetCodingRate4(NoFaults)
    \/ SetCrc(NoFaults)
    \/ SetMode(NoFaults)
    \/ AssignExplicitHeader
    \/ TransmitPayload({ << >> }, NoFaults)
    \/ ReadPacket(NoFaults)

ConfigSpec == Init /\ [][ConfigNext]_vars

(***************************************************************************)
(* The driver setting the over-current protection, for every u8 argument   *)
(***************************************************************************)
SetOcp(F) ==
    /\ Beside
    /\ \E ma \in 0 .. 255, checks \in BOOLEAN, f \in F :
          \E m \in { set_ocp(Self(f), ma, checks) } :
              Commit(m, "set_ocp", << ma, Bit(checks) >>)

OcpNext == SetOcp(NoFaults)

OcpSpec == Init /\ [][OcpNext]_vars

(***************************************************************************)
(* The simulated radios, each in a thread of its own                       *)
(***************************************************************************)
\* payloads handed to MockLora::transmit_payload: a short one and one longer
\* than a buffer
LongPayload == [k \in 1 .. 300 |-> k % 256]
MockPayloads == { << 7, 8, 9 >>, LongPayload }

MockTransmit(P) ==
    /\ UNCHANGED << drvVars, tmo >>
    /\ \E i \in DOMAIN radios, payload \in P : MockTransmitCall(i, payload)

MockSending ==
    /\ UNCHANGED << drvVars, tmo >>
    /\ \E i \in DOMAIN radios : MockSend(i)

MockReading ==
    /\ UNCHANGED << drvVars, tmo >>
    /\ \E i \in DOMAIN radios : MockReadPacket(i)

MockDropping ==
    /\ UNCHANGED << drvVars, tmo >>
    /\ \E i \in DOMAIN radios : MockDrop(i)

\* num_radios of MockLora::new: a bus of two radios and one of three
BusSizes == { 2, 3 }

MockSpecInit ==
    /\ DrvInit
    /\ \E n \in BusSizes : MockInit(n)
    /\ tmo = NoCall("mock")

MockNext ==
    \/ MockTransmit(MockPayloads)
    \/ MockSending
    \/ MockReading
    \/ MockDropping

MockSpec == MockSpecInit /\ [][MockNext]_vars

(***************************************************************************)
(* read_packet_timeout polling, packets arriving beside it                 *)
(***************************************************************************)
TimeoutInit ==
    /\ DrvInit
    /\ MockInit(2)
    /\ \E impl \in { "driver", "mock" } : tmo = NoCall(impl)

\* the other radio transmits
TmoPeerTransmit ==
    /\ tmo.impl = "mock"
    /\ MockTransmit({ << 7, 8, 9 >> })

TmoPeerSending ==
    /\ tmo.impl = "mock"
    /\ MockSending

\* the chip receives
TmoChipRxDone ==
    /\ tmo.impl = "driver"
    /\ ChipRxDone(RxPackets)

TimeoutNext ==
    \/ TmoCallDriver
    \/ TmoPollDriver
    \/ TmoCallMock
    \/ TmoPollMock
    \/ TmoDelay
    \/ TmoPeerTransmit
    \/ TmoPeerSending
    \/ TmoChipRxDone

\* a call of read_packet_timeout, once entered, keeps running: its thread takes
\* the delay it stands at and the poll it stands at.  A poll is enabled exactly
\* when the call stands at it, and leaves it, so that weak fairness of the
\* polls is that the call is again and again not at a poll.
TimeoutSpec ==
    /\ TimeoutInit
    /\ [][TimeoutNext]_vars
    /\ WF_vars(TmoDelay)
    /\ []<>(tmo.pc # "poll")

(***************************************************************************)
(* The driver setting and reading the bandwidth, for every code the        *)
(* register can hold                                                       *)
(***************************************************************************)
\* the bandwidths the match of set_signal_bandwidth names, and others
NamedBandwidths == { 7800, 10400, 15600, 20800, 31250, 41700, 62500, 125000, 250000 }
OtherBandwidths == { 0, 123, 500000 }

\* the high nibble of ModemConfig1 as the driver may find it: the codes it
\* writes itself (0..9) and the reserved ones (10..15)
BwNibbles == 0 .. 15

GetSignalBandwidth(F) ==
    /\ Beside
    /\ \E f \in F :
          \E m \in { get_signal_bandwidth(Self(f)) } :
              Commit(m, "get_signal_bandwidth", << >>)

\* the state LoRa::new returns in, the bandwidth nibble of ModemConfig1 then
\* holding any code
BwInit ==
    /\ \E c \in BwNibbles : \E m \in { new(PowerOn, 915, VERSION_CHECK) } :
          /\ regs = [m.regs EXCEPT ![ModemConfig1] = c * 16 + (@ % 16)]
          /\ fifo = m.fifo
          /\ cs = m.cs
          /\ frequency = m.frequency
          /\ explicit_header = m.explicit_header
          /\ mode = m.mode
          /\ op = "new"
          /\ arg = << 915 >>
          /\ ret = Returned(m)
          /\ trace = m.trace
          /\ who = "driver"
          /\ again = FirstCall
          /\ ldo_set = FALSE
    /\ MockInit(2)
    /\ tmo = NoCall("driver")

BwNext ==
    \/ SetSignalBandwidth(NamedBandwidths \cup OtherBandwidths, NoFaults)
    \/ GetSignalBandwidth(NoFaults)
    \/ SetCodingRate4(NoFaults)
    \/ SetCrc(NoFaults)

BwSpec == BwInit /\ [][BwNext]_vars

(***************************************************************************)
(* The driver setting the frequency, for every frequency of 0..1023 MHz    *)
(***************************************************************************)
Frequencies == 0 .. 1023

\* the caller sweeps the band: a call sets the frequency of the call before
\* again, or the one 1 MHz above it, and 0 after 1023
Sweep == { frequency, (frequency + 1) % 1024 }

SetFrequency(F) ==
    /\ Beside
    /\ \E freq \in Frequencies \cap Sweep, f \in F :
          \E m \in { set_frequency(Self(f), freq) } :
              Commit(m, "set_frequency", << freq >>)

FreqNext == SetFrequency(NoFaults)

FreqSpec == Init /\ [][FreqNext]_vars

(***************************************************************************)
(* Construction, over a chip of any version                                *)
(***************************************************************************)
\* what the Version register of the chip may hold: any byte
Versions == 0 .. 255

\* the frequency argument of LoRa::new
NewFrequencies == { 433, 915 }

\* before LoRa::new: pins and chip powered up, no driver yet
Unbuilt ==
    /\ regs = PowerOn.regs
    /\ fifo = PowerOn.fifo
    /\ cs = PowerOn.cs
    /\ frequency = PowerOn.frequency
    /\ explicit_header = PowerOn.explicit_header
    /\ mode = PowerOn.mode
    /\ op = "power_on"
    /\ arg = << >>
    /\ ret = Returned(PowerOn)
    /\ trace = << >>
    /\ who = "caller"
    /\ again = FirstCall
    /\ ldo_set = FALSE

\* LoRa::new(spi, cs, reset, freq, delay) over the pins and the chip as they
\* are (the first construction, or one after decompose() or after a failed
\* one), the chip's Version register reading v
Construct(V, F) ==
    /\ Beside
    /\ \E v \in V, freq \in NewFrequencies, f \in F :
          \E m \in { new([PowerOn EXCEPT !.regs = regs, !.fifo = fifo, !.cs = cs,
                                         !.fuel = f], freq, v) } :
              Commit(m, "new", << freq, v >>)

NewInit == Unbuilt /\ MockInit(2) /\ tmo = NoCall("driver")

NewNext == Construct(Versions, NoFaults)

NewSpec == NewInit /\ [][NewNext]_vars

(***************************************************************************)
(* The driver over pins and a transport that may fail                      *)
(***************************************************************************)
\* bound of the model: the most pin and transport calls of an operation that
\* succeed before one fails
MaxFault == 2

\* the fault choices: none, or the call after 0, 1, .., MaxFault good ones fails
Faults == { NoFault } \cup (0 .. MaxFault)

FaultNext ==
    \/ SetMode(Faults)
    \/ Transmitting(Faults)
    \/ ReadPacket(Faults)
    \/ AssignExplicitHeader
    \/ ChipRxDone({ << >> })

FaultSpec == Init /\ [][FaultNext]_vars

(***************************************************************************)
(* The driver receiving packets of every length                            *)
(***************************************************************************)
\* the packet of n bytes 101, 102, ..
PacketOfLen(n) == [i \in 1 .. n |-> (100 + i) % 256]

\* RxNbBytes is a byte, a packet has 0 to 255 bytes: the shortest ones, the
\* longest ones, and those that end at the last address of the FIFO or run
\* over it to address 0
RxLengths == { 0, 1, 2, 128, 129, 254, 255 }
RxAnyPackets == { PacketOfLen(n) : n \in RxLengths }

\* the chip, receiving, finds the CRC of a payload wrong and raises
\* PayloadCrcError
ChipCrcError ==
    /\ UNCHANGED << mockVars, tmo >>
    /\ regs[OpMode] \in { BitOr(LongRangeMode, RxContinuous), BitOr(LongRangeMode, RxSingle) }
    /\ BitAnd(regs[IrqFlags], PayloadCrcError) = 0
    /\ regs' = [regs EXCEPT ![IrqFlags] = BitOr(@, PayloadCrcError)]
    /\ who' = "chip"
    /\ UNCHANGED << fifo, cs, frequency, explicit_header, mode, op, arg, ret, trace,
                    again, ldo_set >>

RxNext ==
    \/ ReadPacket(NoFaults)
    \/ ChipRxDone(RxAnyPackets)
    \/ ChipCrcError
    \/ TransmitPayload({ << >> }, NoFaults)
    \/ ChipTxDone

RxSpec == Init /\ [][RxNext]_vars

(***************************************************************************)
(* The driver transmitting payloads of every kind of length                *)
(***************************************************************************)
\* the payload of n bytes 1, 2, ..
PayloadOfLen(n) == [i \in 1 .. n |-> i % 256]

\* lengths of the payloads handed to transmit_payload: none, short, the 255
\* bytes of a full packet, and longer
TxLengths == { 0, 1, 255, 300 }
TxAnyPayloads == { PayloadOfLen(n) : n \in TxLengths }

TxNext ==
    \/ TransmitPayload(TxAnyPayloads, NoFaults)
    \/ SetMode(NoFaults)
    \/ AssignExplicitHeader
    \/ ChipTxDone

TxSpec == Init /\ [][TxNext]_vars

(***************************************************************************)
(* transmit_payload_busy, of the driver and of MockLora                    *)
(***************************************************************************)
\* bound of the model: the polls of a call are counted up to MaxPolls
MaxPolls == 2

\* self.transmit_payload(payload)?; err is what transmit_payload returned
BusyAfterTransmit(t, err) ==
    IF err # "none"
    THEN [t EXCEPT !.pc = "done", !.result = MockRet(err, FALSE, << >>)]
    ELSE [t EXCEPT !.pc = "spin"]

\* variant: a loop that polls once and returns whatever the poll reported
BusyAfterPoll_once(t, err, flag) ==
    [t EXCEPT !.polls = Min(@ + 1, MaxPolls), !.pc = "done",
              !.result = MockRet(err, FALSE, << >>)]

\* one turn of `while self.transmitting()? {}`, then Ok(()); err and flag are
\* what transmitting() returned
BusyAfterPoll(t, err, flag) ==
    IF err # "none"
    THEN [t EXCEPT !.polls = Min(@ + 1, MaxPolls), !.pc = "done",
                   !.result = MockRet(err, FALSE, << >>)]
    ELSE IF flag
    THEN [t EXCEPT !.polls = Min(@ + 1, MaxPolls)]
    ELSE [t EXCEPT !.polls = Min(@ + 1, MaxPolls), !.pc = "done",
                   !.result = MockRet("none", FALSE, << >>)]

\* MockLora::transmitting: Ok(false), always
mock_transmitting == FALSE

BusyCallDriver(P) ==
    /\ tmo.impl = "driver" /\ NoLoop
    /\ \E payload \in P :
          \E m \in { transmit_payload(Self(NoFault), payload) } :
              /\ Commit(m, "transmit_payload", payload)
              /\ tmo' = BusyAfterTransmit(NoCall("driver"), m.err)
    /\ UNCHANGED mockVars

BusySpinDriver ==
    /\ tmo.impl = "driver" /\ tmo.pc = "spin"
    /\ \E m \in { transmitting(Self(NoFault)) } :
          /\ Commit(m, "transmitting", << >>)
          /\ tmo' = BusyAfterPoll(tmo, m.err, m.flag)
    /\ UNCHANGED mockVars

\* MockLora::transmit_payload_busy entered: transmit_payload is called
BusyCallMock(P) ==
    /\ tmo.impl = "mock" /\ NoLoop
    /\ \E i \in DOMAIN radios, payload \in P :
          /\ MockTransmitCall(i, payload)
          /\ tmo' = [NoCall("mock") EXCEPT !.pc = "send", !.radio = i]
    /\ UNCHANGED drvVars

\* a turn of the send loop of that transmit_payload
BusySendMock ==
    /\ tmo.impl = "mock" /\ tmo.pc = "send"
    /\ MockSend(tmo.radio)
    /\ UNCHANGED << drvVars, tmo >>

\* that transmit_payload returns
BusyReturnMock ==
    /\ tmo.impl = "mock" /\ tmo.pc = "send"
    /\ radios[tmo.radio].pc = "idle"
    /\ tmo' = BusyAfterTransmit(tmo, sent[tmo.radio][Len(sent[tmo.radio])].err)
    /\ UNCHANGED << drvVars, mockVars >>

BusySpinMock ==
    /\ tmo.impl = "mock" /\ tmo.pc = "spin"
    /\ tmo' = BusyAfterPoll(tmo, "none", mock_transmitting)
    /\ UNCHANGED << drvVars, mockVars >>

\* the driver transmits without waiting, which leaves the chip in Tx
BusyDriverTransmit ==
    /\ tmo.impl = "driver"
    /\ TransmitPayload({ << >> }, NoFaults)

\* the radio's peer is dropped
BusyPeerDrop ==
    /\ tmo.impl = "mock"
    /\ MockDropping

BusyInit ==
    /\ DrvInit
    /\ MockInit(2)
    /\ \E impl \in { "driver", "mock" } : tmo = NoCall(impl)

BusyNext ==
    \/ BusyCallDriver(TxPayloads)
    \/ BusySpinDriver
    \/ BusyDriverTransmit
    \/ ChipTxDone
    \/ BusyCallMock({ << 7, 8, 9 >> })
    \/ BusySendMock
    \/ BusyReturnMock
    \/ BusySpinMock
    \/ BusyPeerDrop

\* the chip ends every transmission it started; the thread in the call keeps
\* running: it takes the poll, the send and the return it stands at
BusySpec ==
    /\ BusyInit
    /\ [][BusyNext]_vars
    /\ WF_vars(ChipTxDone)
    /\ WF_vars(BusySpinDriver)
    /\ WF_vars(BusySendMock)
    /\ WF_vars(BusyReturnMock)
    /\ WF_vars(BusySpinMock)

(***************************************************************************)
(* The transmit power                                                      *)
(***************************************************************************)
Levels == (0 - 5) .. 25
OutputPins == { PaOutputRfoPin, 1, 255 }

SetTxPower(F) ==
    /\ Beside
    /\ \E level \in Levels, output_pin \in OutputPins, checks \in BOOLEAN, f \in F :
          \E m \in { set_tx_power(Self(f), level, output_pin, checks) } :
              Commit(m, "set_tx_power", << level, output_pin >>)

PowerNext == SetTxPower(NoFaults)

PowerSpec == Init /\ [][PowerNext]_vars

(***************************************************************************)
(* Properties of the simulated radios                                      *)
(***************************************************************************)
\* the copies of the buffer of A's k-th call that reached B: those waiting in
\* B's channel and those B's read_packet returned
Copies(B, A, k) ==
    Len(SelectSeq(chan[radios[B].rx] \o recv[B], LAMBDA m : m.from = A /\ m.n = k))

\* what B's read_packet calls returned from A
From(B, A) == SelectSeq(recv[B], LAMBDA m : m.from = A)

\* C2: a transmit_payload of radio A that returned Ok(()) has put exactly one
\* copy of the buffer into the channel of every other radio; no call puts a
\* copy into A's own channel or more than one into another's, and read_packet
\* on A never returns what A transmitted.
FanOutToOthers ==
    \A A \in DOMAIN radios :
        /\ From(A, A) = << >>
        /\ \A k \in 1 .. Len(sent[A]) :
              /\ Copies(A, A, k) = 0
              /\ \A B \in DOMAIN radios \ { A } :
                    /\ Copies(B, A, k) <= 1
                    /\ sent[A][k].err = "none" => Copies(B, A, k) = 1

\* on a bus of three a radio transmitted with success, and one of the other
\* two has read the buffer while the other still has it waiting
FanOutSeen ==
    /\ Cardinality(DOMAIN radios) = 3
    /\ \E A \in DOMAIN radios :
          /\ Len(sent[A]) >= 1
          /\ sent[A][1].err = "none"
          /\ \A B \in DOMAIN radios \ { A } : Copies(B, A, 1) = 1
          /\ \E B \in DOMAIN radios : From(B, A) # << >>
          /\ \E B \in DOMAIN radios \ { A } : chan[radios[B].rx] # << >>

Truncation ==
    /\ \A A \in DOMAIN radios : \A k \in 1 .. Len(sent[A]) :
          drops = 0 => sent[A][k].err \in { "none", "pending" }
    /\ \A B \in DOMAIN radios : \A j \in 1 .. Len(recv[B]) :
          LET payload == sent[recv[B][j].from][recv[B][j].n].payload
              L == Len(payload)
          IN  /\ Len(recv[B][j].bytes) = Min(L, 255)
              /\ \A x \in 1 .. Min(L, 255) : recv[B][j].bytes[x] = payload[x]

\* a payload of 300 bytes was transmitted with success and read as 255 bytes
TruncationSeen ==
    \E B \in DOMAIN radios : \E j \in 1 .. Len(recv[B]) :
        /\ Len(sent[recv[B][j].from][recv[B][j].n].payload) = 300
        /\ sent[recv[B][j].from][recv[B][j].n].err = "none"
        /\ Len(recv[B][j].bytes) = 255

(***************************************************************************)
(* Properties of read_packet_timeout                                       *)
(***************************************************************************)
\* the counts of a call that has returned
TimeoutCounts ==
    /\ tmo.ms \subseteq { 1 }
    /\ (tmo.pc = "done" /\ tmo.result.err = "none" /\ ~tmo.result.some /\ tmo.timeout_ms >= 0)
          => /\ tmo.delays = tmo.timeout_ms
             /\ tmo.polls = tmo.timeout_ms + 1
             /\ ~tmo.avail.some
    /\ (tmo.pc = "done" /\ tmo.result.err = "none" /\ tmo.result.some)
          => /\ tmo.delays = tmo.polls - 1
             /\ tmo.timeout_ms >= 0 => tmo.polls <= tmo.timeout_ms + 1
             /\ tmo.avail.some
             /\ tmo.result.buf = tmo.avail.buf
    /\ (tmo.pc = "done" /\ tmo.result.err = "none" /\ tmo.avail.some) => tmo.result.some

\* C5: read_packet_timeout(N), of the driver and of MockLora, returns; with no
\* packet and N >= 0 it returns Ok(None) after N delays of 1 ms and N + 1
\* polls; with a packet waiting at the k-th poll, k <= N + 1, it returns that
\* packet after k - 1 delays.
ReadPacketTimeout ==
    /\ []TimeoutCounts
    /\ (tmo.pc = "poll") ~> (tmo.pc = "done")

\* the driver's call with the largest timeout ran out with no packet
TimeoutRanOut ==
    /\ tmo.impl = "driver"
    /\ tmo.pc = "done"
    /\ tmo.result = MockRet("none", FALSE, << >>)
    /\ tmo.timeout_ms = MaxTimeout
    /\ tmo.delays = MaxTimeout
    /\ tmo.polls = MaxTimeout + 1

(***************************************************************************)
(* Properties of the driver                                                *)
(***************************************************************************)
DriverDid(name) == who = "driver" /\ op = name

Ok == ret.err = "none"

\* C1: transmit_payload called while the OpMode register has the Tx bits set
\* returns Error::Transmitting and writes no register: registers, FIFO and the
\* cached mode and header flag stay as they were, for every payload.
BusyTransmitWritesNothing ==
    [][ (who' = "driver" /\ op' = "transmit_payload" /\ BitAnd(regs[OpMode], Tx) = Tx)
        => /\ ret'.err = "Transmitting"
           /\ Writes(trace') = << >>
           /\ regs' = regs
           /\ fifo' = fifo
           /\ mode' = mode
           /\ explicit_header' = explicit_header ]_vars

\* a non-empty payload was refused while the chip was transmitting
BusyTransmitRefused ==
    /\ DriverDid("transmit_payload")
    /\ arg # << >>
    /\ ret.err = "Transmitting"
    /\ BitAnd(regs[OpMode], Tx) = Tx
    /\ Writes(trace) = << >>

\* C6: set_mode(m) with m the cached mode reads and writes no register, does
\* not touch chip-select, leaves the cached mode and header flag alone and
\* returns success.
SetSameModeIsNoOp ==
    [][ (who' = "driver" /\ op' = "set_mode" /\ arg'[1] = mode)
        => /\ trace' = << >>
           /\ ret'.err = "none"
           /\ UNCHANGED << regs, fifo, cs, mode, explicit_header >> ]_vars

\* set_mode was called twice with the same mode, and the second call, finding
\* the mode cached, did nothing
SetSameModeSeen ==
    /\ DriverDid("set_mode")
    /\ again.same /\ again.ok /\ again.writes > 0
    /\ arg[1] = mode
    /\ trace = << >>
    /\ Ok

\* C7 as stated: set_mode(m) called twice in a row issues at most one register
\* write in total.
SetModeTwiceOneWrite ==
    (DriverDid("set_mode") /\ again.same /\ again.ok /\ Ok)
        => again.writes + Len(Writes(trace)) <= 1

\* C7: set_mode(m) called twice in a row writes the OpMode register at most
\* once in total, and at most two registers (the header bit of ModemConfig1 and
\* OpMode, by the first call); the second call writes nothing.
SetModeTwiceOneTransition ==
    (DriverDid("set_mode") /\ again.same /\ again.ok /\ Ok)
        => /\ again.opmode + Len(WritesTo(trace, OpMode)) <= 1
           /\ again.writes + Len(Writes(trace)) <= 2
           /\ Writes(trace) = << >>

\* set_mode(m) twice in a row, the first call an actual transition of two
\* register writes
SetModeTwiceSeen ==
    /\ DriverDid("set_mode")
    /\ again.same /\ again.ok /\ Ok
    /\ again.writes = 2 /\ again.opmode = 1
    /\ Writes(trace) = << >>

\* C8: after a successful actual mode transition bit 0 of ModemConfig1 is 0
\* when explicit_header is true and 1 when it is false; the header bit was
\* written before OpMode, and the cached mode is the requested one.
HeaderBitNeverStale ==
    (DriverDid("set_mode") /\ Ok /\ trace # << >>)
        => /\ get_bit(regs[ModemConfig1], 0) = ~explicit_header
           /\ Len(Writes(trace)) = 2
           /\ Writes(trace)[1].b0 = BitOr(ModemConfig1, 128)
           /\ Writes(trace)[2].b0 = BitOr(OpMode, 128)
           /\ mode = arg[1]

\* symbol_duration of the registers as they are
SymbolDuration ==
    TruncDiv(1000, TruncDiv(BandwidthOfCode(regs[ModemConfig1] \div 16),
                            2 ^ (regs[ModemConfig2] \div 16)))

\* C9: once set_signal_bandwidth or set_spreading_factor has succeeded, after
\* every successful driver operation bit 3 of ModemConfig3 is 1 iff
\* symbol_duration > 16.
LdoInvariant ==
    (ldo_set /\ who = "driver" /\ Ok)
        => get_bit(regs[ModemConfig3], 3) = (SymbolDuration > 16)

\* the Ocp value of the formula, on the true integers
OcpOf(ma) ==
    LET trim == IF ma <= 120 THEN (ma - 45) \div 5
                ELSE IF ma <= 240 THEN (ma + 30) \div 10
                ELSE 27
    IN  BitOr(32, BitAnd(31, trim))

\* C10: set_ocp(ma) with ma >= 45 succeeds and writes OcpOf(ma), and nothing
\* else, to the Ocp register.
OcpFormula ==
    (DriverDid("set_ocp") /\ arg[1] >= 45)
        => /\ Ok
           /\ Len(Writes(trace)) = 1
           /\ Writes(trace)[1] = Ev("write", BitOr(Ocp, 128), OcpOf(arg[1]))
           /\ regs[Ocp] = OcpOf(arg[1])

\* the code the bandwidth table gives b: the nine named bandwidths in
\* ascending order are 0..8, every other input is 9
TableCode(b) ==
    IF b \in NamedBandwidths
    THEN Cardinality({ x \in NamedBandwidths : x < b })
    ELSE 9

\* C11: set_signal_bandwidth(b) puts code 0..8 of the named bandwidth b, and 9
\* for any other b, in the high nibble of ModemConfig1 and leaves the low
\* nibble alone; a get_signal_bandwidth that follows returns b for a named
\* bandwidth and 500000 for any other; get_signal_bandwidth over a register
\* holding code 10..15 returns -1.
BandwidthRoundTrip ==
    [][ /\ (who' = "driver" /\ op' = "set_signal_bandwidth")
            => /\ ret'.err = "none"
               /\ regs'[ModemConfig1] \div 16 = TableCode(arg'[1])
               /\ regs'[ModemConfig1] % 16 = regs[ModemConfig1] % 16
        /\ (who' = "driver" /\ op' = "get_signal_bandwidth")
            => /\ ret'.err = "none"
               /\ regs' = regs
               /\ (DriverDid("set_signal_bandwidth") /\ arg[1] \in NamedBandwidths)
                     => ret'.val = arg[1]
               /\ (DriverDid("set_signal_bandwidth") /\ arg[1] \notin NamedBandwidths)
                     => ret'.val = 500000
               /\ regs[ModemConfig1] \div 16 >= 10 => ret'.val = 0 - 1 ]_vars

\* 250000 was set and read back
BandwidthRoundTripSeen ==
    /\ DriverDid("get_signal_bandwidth")
    /\ ret.val = 250000
    /\ regs[ModemConfig1] \div 16 = 8

\* frf of f MHz, on the true integers
FrfOf(f) == (f * 2 ^ 19) \div 32

\* C12: set_frequency(f) writes FrfMsb, FrfMid and FrfLsb, in that order and
\* nothing else, with the three bytes of frf = f * 2^19 / 32, most significant
\* first; the three registers read back as frf, and the cached frequency is f.
FrequencyBytes ==
    DriverDid("set_frequency")
        => /\ Ok
           /\ Writes(trace) =
                 << Ev("write", BitOr(FrfMsb, 128), FrfOf(arg[1]) \div 65536),
                    Ev("write", BitOr(FrfMid, 128), (FrfOf(arg[1]) \div 256) % 256),
                    Ev("write", BitOr(FrfLsb, 128), FrfOf(arg[1]) % 256) >>
           /\ regs[FrfMsb] * 65536 + regs[FrfMid] * 256 + regs[FrfLsb] = FrfOf(arg[1])
           /\ frequency = arg[1]

\* 915 MHz was set: frf is 0xE4C000
FrequencyBytesSeen ==
    /\ DriverDid("set_frequency")
    /\ arg = << 915 >>
    /\ regs[FrfMsb] = 228 /\ regs[FrfMid] = 192 /\ regs[FrfLsb] = 0
    /\ again.same

\* C13: LoRa::new pulses reset (low, 10 ms, high, 10 ms) and then reads the
\* Version register; reading v other than VERSION_CHECK it returns
\* VersionMismatch(v), having written no register; reading VERSION_CHECK it
\* does not return VersionMismatch.
VersionCheck ==
    DriverDid("new")
        => /\ Len(trace) >= 7
           /\ SubSeq(trace, 1, 7) =
                 << Ev("reset_low", 0, 0), Ev("delay", 10, 0),
                    Ev("reset_high", 0, 0), Ev("delay", 10, 0),
                    Ev("cs_low", 0, 0), Ev("transfer", Version, arg[2]),
                    Ev("cs_high", 0, 0) >>
           /\ arg[2] # VERSION_CHECK
                 => /\ ret.err = "VersionMismatch"
                    /\ ret.val = arg[2]
                    /\ Len(trace) = 7
                    /\ Writes(trace) = << >>
           /\ arg[2] = VERSION_CHECK => ret.err # "VersionMismatch"

\* construction over a chip of version 0x09 failed with VersionMismatch(9)
VersionMismatchSeen ==
    /\ DriverDid("new")
    /\ arg[2] = 9
    /\ ret.err = "VersionMismatch"
    /\ ret.val = 9
    /\ Writes(trace) = << >>

\* the places of the writes of byte to register reg among the register writes
\* of the last operation
WrittenAt(reg, byte) ==
    { i \in 1 .. Len(Writes(trace)) : Writes(trace)[i] = Ev("write", BitOr(reg, 128), byte) }

\* the places of the writes to register reg
WritesAt(reg) ==
    { i \in 1 .. Len(Writes(trace)) : Writes(trace)[i].b0 = BitOr(reg, 128) }

\* C14: a successful LoRa::new writes OpMode = 0x80 (long-range | Sleep)
\* before it writes the frequency registers, and OpMode = 0x81 (long-range |
\* Standby) later; it ends with cached mode Standby and chip-select high.
SleepBeforeStandby ==
    (DriverDid("new") /\ Ok)
        => /\ \E i \in WrittenAt(OpMode, BitOr(LongRangeMode, Sleep)) :
                 /\ \A j \in WritesAt(FrfMsb) \cup WritesAt(FrfMid) \cup WritesAt(FrfLsb) : i < j
                 /\ \E k \in WrittenAt(OpMode, BitOr(LongRangeMode, Stdby)) : i < k
           /\ mode = Stdby
           /\ cs = "high"

\* the pin and transport calls of the last operation are whole register
\* accesses: chip-select low, one transfer or write, chip-select high
WholeAccesses ==
    /\ Len(trace) % 3 = 0
    /\ \A i \in 1 .. Len(trace) :
          trace[i].ev = CASE i % 3 = 1 -> "cs_low"
                          [] i % 3 = 0 -> "cs_high"
                          [] OTHER -> trace[i].ev
    /\ \A i \in 1 .. Len(trace) : i % 3 = 2 => trace[i].ev \in { "transfer", "write" }

\* C15: whatever the outcome of a driver operation, failed transfers included,
\* each of its register accesses drove chip-select low, made one transfer and
\* drove chip-select high; chip-select is high whenever no operation is under
\* way.
ChipSelectHighWhenIdle ==
    /\ cs = "high"
    /\ (DriverDid("set_mode") \/ DriverDid("transmitting") \/ DriverDid("read_packet"))
          => WholeAccesses

\* the register reads of a trace from register reg
ReadsOf(t, reg) == SelectSeq(t, LAMBDA e : e.ev = "transfer" /\ e.b0 = reg)

\* the register writes of an actual transition to newmode, as set_mode makes
\* them from the state before it
TransitionWrites(newmode) ==
    << Ev("write", BitOr(ModemConfig1, 128),
          IF explicit_header THEN BitAnd(regs[ModemConfig1], 254)
                             ELSE BitAnd(regs[ModemConfig1], 1)),
       Ev("write", BitOr(OpMode, 128), BitOr(LongRangeMode, newmode)) >>

\* C16: read_packet called with bit 6 of IrqFlags unset returns Ok(None); it
\* writes no register but those of the transition to RxContinuous (none when
\* that mode is cached), reads the FIFO not at all, leaves IrqFlags (a pending
\* TxDone or PayloadCrcError with it), FifoAddrPtr and the FIFO as they were,
\* and leaves the cached mode RxContinuous.
ReadPacketNothingReady ==
    [][ (who' = "driver" /\ op' = "read_packet" /\ ~get_bit(regs[IrqFlags], 6))
        => /\ ret'.err = "none"
           /\ ~ret'.some
           /\ Writes(trace') = IF mode = RxContinuous THEN << >>
                               ELSE TransitionWrites(RxContinuous)
           /\ ReadsOf(trace', Fifo) = << >>
           /\ regs'[IrqFlags] = regs[IrqFlags]
           /\ regs'[FifoAddrPtr] = regs[FifoAddrPtr]
           /\ fifo' = fifo
           /\ mode' = RxContinuous ]_vars

\* read_packet found nothing while TxDone and PayloadCrcError were pending,
\* and left both
NothingReadySeen ==
    /\ DriverDid("read_packet")
    /\ Ok /\ ~ret.some
    /\ Len(Writes(trace)) = 2
    /\ BitAnd(regs[IrqFlags], TxDone) = TxDone
    /\ BitAnd(regs[IrqFlags], PayloadCrcError) = PayloadCrcError

\* the radios other than E that still exist
Peers(E) == { r \in DOMAIN radios \ { E } : radios[r].alive }

\* read_packet on radio E can return r in this state
CanReturn(E, r) == ENABLED mock_read_packet(E, r)

\* C17: read_packet on a radio E returns the oldest buffer of its queue while
\* there is one; with the queue empty it returns Ok(None) while another radio
\* exists and Err(Receiver) when every other radio was dropped, and in no
\* other case.  When it reports the failure, every buffer that was put in E's
\* queue has been returned, those of each sender in the order of its calls.
ReceiveFailure ==
    \A E \in DOMAIN radios :
        Idle(E) =>
            LET q == chan[radios[E].rx]
            IN  /\ CanReturn(E, MockRet("Receiver", FALSE, << >>))
                      <=> (q = << >> /\ Peers(E) = { })
                /\ CanReturn(E, MockRet("none", FALSE, << >>))
                      <=> (q = << >> /\ Peers(E) # { })
                /\ q # << >> => CanReturn(E, MockRet("none", TRUE, Head(q).bytes))
                /\ CanReturn(E, MockRet("Receiver", FALSE, << >>))
                      => \A A \in DOMAIN radios \ { E } :
                            /\ \A k \in 1 .. Len(sent[A]) :
                                  sent[A][k].err = "none"
                                      => Len(SelectSeq(recv[E], LAMBDA m : m.from = A /\ m.n = k)) = 1
                            /\ \A j \in 1 .. Len(From(E, A)) :
                                  /\ From(E, A)[j].n = j
                                  /\ From(E, A)[j].bytes = Take(sent[A][j].payload, Capacity)

\* on a bus of three, both peers of a radio were dropped after one of them
\* had transmitted; the radio has read the buffer, and its next read_packet
\* reports the failure
ReceiveFailureSeen ==
    /\ Cardinality(DOMAIN radios) = 3
    /\ \E E \in DOMAIN radios :
          /\ Idle(E)
          /\ Peers(E) = { }
          /\ recv[E] # << >>
          /\ chan[radios[E].rx] = << >>
          /\ CanReturn(E, MockRet("Receiver", FALSE, << >>))

\* C18: transmitting() called while the OpMode register does not show Tx
\* returns false; with TxDone pending in IrqFlags it writes the mask 0x08, and
\* nothing else, to IrqFlags, which clears TxDone and no other flag; with
\* TxDone not pending it writes nothing.
TransmittingAcksTxDone ==
    [][ (who' = "driver" /\ op' = "transmitting" /\ BitAnd(regs[OpMode], Tx) # Tx)
        => /\ ret'.err = "none"
           /\ ~ret'.flag
           /\ BitAnd(regs[IrqFlags], TxDone) = TxDone
                 => /\ Writes(trace') = << Ev("write", BitOr(IrqFlags, 128), TxDone) >>
                    /\ regs'[IrqFlags] = regs[IrqFlags] - TxDone
           /\ BitAnd(regs[IrqFlags], TxDone) = 0
                 => /\ Writes(trace') = << >>
                    /\ regs'[IrqFlags] = regs[IrqFlags] ]_vars

\* the writes that load payload p into the FIFO: its first min(L, 255) bytes
FifoWrites(p) ==
    [i \in 1 .. Min(Len(p), 255) |-> Ev("write", BitOr(Fifo, 128), p[i])]

\* C19: transmit_payload(p), called while the chip is not transmitting, over
\* pins and a transport that do not fail, from any cached mode: after the
\* writes of the transition to Standby (none when Standby is cached) it
\* writes IrqFlags = 0, FifoAddrPtr = 0, PayloadLength = 0, the first
\* min(L, 255) bytes of p to Fifo in order, PayloadLength = min(L, 255), and
\* then makes the transition to Tx: the header bit, and OpMode = 0x83 as the
\* last write, written once.  The cached mode ends as Tx.
TransmitWriteOrder ==
    [][ (who' = "driver" /\ op' = "transmit_payload" /\ BitAnd(regs[OpMode], Tx) # Tx)
        => /\ ret'.err = "none"
           /\ Writes(trace') =
                 (IF mode = Stdby THEN << >> ELSE TransitionWrites(Stdby))
                 \o << Ev("write", BitOr(IrqFlags, 128), 0),
                       Ev("write", BitOr(FifoAddrPtr, 128), 0),
                       Ev("write", BitOr(PayloadLength, 128), 0) >>
                 \o FifoWrites(arg')
                 \o << Ev("write", BitOr(PayloadLength, 128), Min(Len(arg'), 255)) >>
                 \o TransitionWrites(Tx)
           /\ Len(WritesTo(trace', Fifo)) = Min(Len(arg'), 255)
           /\ Len(SelectSeq(trace', LAMBDA e :
                    e = Ev("write", BitOr(OpMode, 128), BitOr(LongRangeMode, Tx)))) = 1
           /\ trace'[Len(trace') - 1] = Ev("write", BitOr(OpMode, 128), BitOr(LongRangeMode, Tx))
           /\ mode' = Tx
           /\ regs'[PayloadLength] = Min(Len(arg'), 255)
           /\ \A i \in 1 .. Min(Len(arg'), 255) : fifo'[i - 1] = arg'[i] ]_vars

\* a payload of 300 bytes was transmitted from a cached mode other than
\* Standby: 255 bytes went to the FIFO
TransmitLongSeen ==
    /\ DriverDid("transmit_payload")
    /\ Ok
    /\ Len(arg) = 300
    /\ Len(WritesTo(trace, Fifo)) = 255
    /\ Len(WritesTo(trace, OpMode)) = 2
    /\ regs[PayloadLength] = 255
    /\ mode = Tx

\* the reads of the Fifo register that return the bytes of buffer b
FifoReads(b) == [i \in 1 .. Len(b) |-> Ev("transfer", Fifo, b[i])]

\* the register reads and writes of a trace, without the chip-select calls
Accesses(t) == SelectSeq(t, LAMBDA e : e.ev \in { "transfer", "write" })

InBusy == tmo.pc \in { "send", "spin" }

\* what holds of a call of transmit_payload_busy that has returned
BusyCounts ==
    /\ tmo.delays = 0
    /\ (tmo.pc = "done" /\ tmo.result.err # "none")
          => /\ tmo.polls = 0
             /\ tmo.result.err \in { "Transmitting", "Transmitter" }
    /\ (tmo.pc = "done" /\ tmo.result.err = "none")
          => /\ tmo.polls >= 1
             /\ (tmo.impl = "mock") => (tmo.polls = 1)

\* the step of the driver's call that polls: it returns Ok(()) exactly when
\* the poll reported false, and it never waits
BusyPolled ==
    (tmo.impl = "driver" /\ tmo.pc = "spin")
       => /\ tmo'.pc \in { "spin", "done" }
          /\ (tmo' # tmo \/ op' # op \/ ret' # ret)
                => /\ op' = "transmitting"
                   /\ ret'.err = "none"
                   /\ (tmo'.pc = "done") <=> ~ret'.flag
                   /\ (tmo'.pc = "done") => (tmo'.result.err = "none")
                   /\ SelectSeq(trace', LAMBDA e : e.ev = "delay") = << >>

\* C21: transmit_payload_busy returns the error of transmit_payload without
\* polling; otherwise it polls transmitting() with no delay and returns Ok(())
\* only after a poll that reported false, on MockLora after exactly one poll;
\* with the chip ending every transmission and no transport fault, every call
\* returns.
BusyTransmitReturns ==
    /\ []BusyCounts
    /\ [][BusyPolled]_vars
    /\ InBusy ~> (tmo.pc = "done")

\* the driver's call returned Ok(()) after polls that reported true and one
\* that reported false
BusySpunSeen ==
    /\ tmo.impl = "driver"
    /\ tmo.pc = "done"
    /\ tmo.result.err = "none"
    /\ tmo.polls >= 2
    /\ op = "transmitting"
    /\ ~ret.flag

\* the level the boosted path ends with, before the last 2 are taken off
BoostLevel(level) ==
    IF Clamp(level, 2, 20) > 17 THEN Clamp(level, 2, 20) - 3 ELSE Clamp(level, 2, 20)

\* the register writes the claim gives set_tx_power(level, output_pin)
PowerWrites(level, output_pin) ==
    IF output_pin = 0
    THEN << Ev("write", BitOr(PaConfig, 128), 112 + Clamp(level, 0, 14)) >>
    ELSE << Ev("write", BitOr(PaDac, 128),
               IF Clamp(level, 2, 20) > 17 THEN 135 ELSE 132),
            Ev("write", BitOr(Ocp, 128),
               OcpOf(IF Clamp(level, 2, 20) > 17 THEN 140 ELSE 100)),
            Ev("write", BitOr(PaConfig, 128), 128 + (BoostLevel(level) - 2)) >>

\* C22: set_tx_power(level, output_pin) with output_pin = 0 writes only
\* PaConfig = 0x70 | clamp(level, 0, 14); with another output_pin and
\* l = clamp(level, 2, 20) it writes PaDac = 0x87 and the Ocp of 140 mA and
\* takes 3 off l when l > 17, else PaDac = 0x84 and the Ocp of 100 mA, and
\* last PaConfig = 0x80 | (l - 2), a low nibble in 0..15.
TxPowerWrites ==
    DriverDid("set_tx_power")
       => /\ Ok
          /\ Writes(trace) = PowerWrites(arg[1], arg[2])
          /\ Reads(trace) = << >>
          /\ regs[PaConfig] = Writes(trace)[Len(Writes(trace))].b1
          /\ arg[2] # 0 => /\ BoostLevel(arg[1]) - 2 \in 0 .. 15
                           /\ BitAnd(regs[PaConfig], 15) = BoostLevel(arg[1]) - 2
                           /\ BitAnd(regs[PaConfig], 240) = 128

\* the boosted path was taken with a level above 17
HighPowerSeen ==
    /\ DriverDid("set_tx_power")
    /\ arg = << 25, 1 >>
    /\ regs[PaDac] = 135
    /\ regs[Ocp] = 49
    /\ regs[PaConfig] = 143

\* C23: whenever set_mode(m) returns success, the OpMode register holds the
\* long-range flag with the code of m: the chip is in the mode asked for,
\* the chip leaving Tx for Standby by itself included.
SetModeReachesChip ==
    (DriverDid("set_mode") /\ Ok)
       => regs[OpMode] = BitOr(LongRangeMode, arg[1])

\* C24: while the OpMode register shows Tx, no call of transmit_payload,
\* transmitting or read_packet (read_packet_timeout polls read_packet) writes
\* the OpMode register: only the chip's own completion ends a transmission.
TxNotCutShort ==
    [][ ( /\ who' = "driver"
          /\ op' \in { "transmit_payload", "transmitting", "read_packet" }
          /\ regs[OpMode] = BitOr(LongRangeMode, Tx) )
        => /\ WritesTo(trace', OpMode) = << >>
           /\ regs'[OpMode] = regs[OpMode] ]_vars

\* the bits of ModemConfig1 and of ModemConfig2 that belong to the parameter
\* of the operation name
OwnBits1(name) ==
    CASE name = "set_signal_bandwidth" -> 240
      [] name = "set_coding_rate_4" -> 14
      [] name \in { "set_mode", "transmit_payload", "read_packet" } -> 1
      [] OTHER -> 0

OwnBits2(name) ==
    CASE name = "set_spreading_factor" -> 240
      [] name = "set_crc" -> 4
      [] OTHER -> 0

\* C25: an operation that rewrites ModemConfig1 or ModemConfig2 changes only
\* the bits of its own parameter: bandwidth bits 4-7, coding rate bits 1-3 and
\* header bit 0 of ModemConfig1, spreading factor bits 4-7 and CRC bit 2 of
\* ModemConfig2; the other settings survive setters, mode transitions,
\* transmits and receives.
ConfigFrame ==
    [][ (who' = "driver" /\ ret'.err = "none")
        => /\ BitAnd(regs'[ModemConfig1], 255 - OwnBits1(op'))
                = BitAnd(regs[ModemConfig1], 255 - OwnBits1(op'))
           /\ BitAnd(regs'[ModemConfig2], 255 - OwnBits2(op'))
                = BitAnd(regs[ModemConfig2], 255 - OwnBits2(op')) ]_vars

\* C26: on a bus of three or more radios transmit_payload is all or nothing:
\* a call that returned a Transmitter error has put no copy of its buffer into
\* any channel, and a call that returned Ok(()) has put exactly one copy into
\* the channel of every other radio.
TransmitAllOrNothing ==
    Cardinality(DOMAIN radios) >= 3
       => \A A \in DOMAIN radios : \A k \in 1 .. Len(sent[A]) :
             /\ sent[A][k].err = "Transmitter"
                   => \A B \in DOMAIN radios : Copies(B, A, k) = 0
             /\ sent[A][k].err = "none"
                   => \A B \in DOMAIN radios \ { A } : Copies(B, A, k) = 1

\* the trim field of the Ocp register
OcpTrim == BitAnd(regs[Ocp], 31)

\* C27: set_ocp(ma) is total on 0..255: it never aborts and its arithmetic
\* never wraps, so the trim written is the quotient of ma - 45 by 5 (ma <= 120)
\* or of ma + 30 by 10 (ma <= 240) on the integers; the byte written has bit 5
\* set, bits 6-7 clear and a trim in 0..27.
OcpTotal ==
    DriverDid("set_ocp")
       => /\ Ok
          /\ Len(Writes(trace)) = 1
          /\ BitAnd(regs[Ocp], 224) = 32
          /\ OcpTrim \in 0 .. 27
          /\ arg[1] <= 120
                => (5 * OcpTrim <= arg[1] - 45 /\ arg[1] - 45 < 5 * (OcpTrim + 1))
          /\ arg[1] \in 121 .. 240
                => (10 * OcpTrim <= arg[1] + 30 /\ arg[1] + 30 < 10 * (OcpTrim + 1))

====
